---- MODULE Spec2Model ----
(***************************************************************************)
(* A model of vector.h: RawMemory<T> (one raw allocation and its           *)
(* capacity) and Vector<T> (a RawMemory plus the count of constructed      *)
(* elements).  The heap is a set of buffers, each a sequence of slots; a   *)
(* slot is raw or holds a constructed element.  Every public operation of  *)
(* Vector is one action that runs the whole member function, including     *)
(* its failure paths: an element operation or the allocation of a call     *)
(* fails when the action's inputs say so.                                  *)
(***************************************************************************)
EXTENDS Integers, Sequences, FiniteSets

\* ------------------------------------------------------------------ bounds
MaxCap == 4        \* most slots the two vectors own together
MaxVal == 2        \* number of distinct element values a caller passes
NumBuffers == 3    \* buffer identities of the heap (two vectors and one local)

\* ------------------------------------------------------- slots and values
Raw == 0                       \* a slot that holds no constructed element
DefaultVal == 1                \* the value of T()
MovedFrom == DefaultVal        \* a moved-from element is left as T() is
Values == 1 .. MaxVal          \* the values of constructed elements
Null == 0                      \* the null buffer pointer
Vectors == 1 .. 2
BufIds == 1 .. NumBuffers
ElemTypes == {"NothrowMove", "ThrowingCopy", "ThrowingMoveOnly"}

\* heap: the buffers; vec: the two Vector objects; elemType: the element type
\* the template is instantiated with; halted: the program has run into
\* undefined behaviour; pushes[v]: the number of PushBack calls that have
\* succeeded on vector v if nothing else has been called on it since it was
\* last empty with no capacity, and Mixed otherwise
VARIABLES heap, vec, elemType, halted, pushes
vars == <<heap, vec, elemType, halted, pushes>>
Mixed == 0 - 1

FreeBuf == [alloc |-> FALSE, slots |-> <<>>]
EmptyVec == [alive |-> TRUE, data |-> Null, cap |-> 0, size |-> 0]
NoVec == [alive |-> FALSE, data |-> Null, cap |-> 0, size |-> 0]

\* ---------------------------------------------------- the element type T
NothrowMove(m) == m.elemType = "NothrowMove"
Copyable(m) == m.elemType # "ThrowingMoveOnly"
\* the "if constexpr" test of EmplaceBack, Emplace, Erase and Reserve
MigrateByMove(m) == NothrowMove(m) \/ ~Copyable(m)

\* ------------------------------------------------ the state of one call
\* heap, vec: the program state the call works on; fails: the ordinals of
\* the fallible element operations that fail in this call; allocFail: the
\* allocation of this call fails; garbage: what a read of a raw slot gives;
\* n counts the fallible element operations so far; exc: an exception is
\* propagating; failed: some step of the call has failed, failAt: the ordinal
\* of the first element operation that failed; ub: the call has run into
\* undefined behaviour; baddtor: a destructor has run on a slot that holds no
\* constructed element; constructed, destroyed, assigned: element operations
\* done on slots; allocs, releases: buffers allocated and released; leaked:
\* elements whose storage went away with no destructor call; newbuf: the
\* buffer of the last RawMemory built; path: the branch the call took; stage:
\* the step of the call at which the first failure happened; ret: the index
\* of the position the call returns.
Start(h, v, t, fails, allocFail, garbage) ==
    [heap |-> h, vec |-> v, elemType |-> t, fails |-> fails,
     allocFail |-> allocFail, garbage |-> garbage,
     n |-> 0, exc |-> FALSE, failed |-> FALSE, failAt |-> 0, ub |-> FALSE,
     baddtor |-> FALSE,
     constructed |-> 0, destroyed |-> 0, assigned |-> 0,
     allocs |-> 0, releases |-> 0, leaked |-> 0, newbuf |-> Null,
     path |-> "none", stage |-> "none", ret |-> 0]

SlotAt(m, b, i) == m.heap[b].slots[i + 1]
InBuf(m, b, i) == b \in BufIds /\ m.heap[b].alloc /\ i >= 0 /\ i < Len(m.heap[b].slots)
LiveIn(m, b) == Cardinality({i \in 1 .. Len(m.heap[b].slots) : m.heap[b].slots[i] # Raw})

\* try { m } catch (...) { Catch }, followed by Ok when nothing was thrown;
\* Then: a step whose exception leaves the function
Try(m, Ok(_), Catch(_)) == IF m.exc THEN Catch(m) ELSE Ok(m)
Then(m, Ok(_)) == IF m.exc THEN m ELSE Ok(m)
Caught(m) == [m EXCEPT !.exc = FALSE]

\* an element operation that can fail: the (n+1)-th of the call
Throw(m) ==
    [m EXCEPT !.n = @ + 1, !.exc = TRUE, !.failed = TRUE,
              !.failAt = IF m.failAt = 0 THEN m.n + 1 ELSE @]
Tick(m) == [m EXCEPT !.n = @ + 1]
FailsNext(m) == (m.n + 1) \in m.fails

\* writes x into slot i of buffer b (an access outside an allocated buffer
\* is undefined behaviour)
Store(m, b, i, x) ==
    IF InBuf(m, b, i) THEN [m EXCEPT !.heap[b].slots[i + 1] = x]
    ELSE [m EXCEPT !.ub = TRUE]

\* reads the element of slot i of buffer b; a raw slot gives garbage
Load(m, b, i) ==
    IF InBuf(m, b, i) /\ SlotAt(m, b, i) # Raw THEN SlotAt(m, b, i) ELSE m.garbage
LoadUB(m, b, i) == ~(InBuf(m, b, i) /\ SlotAt(m, b, i) # Raw)

\* new (buf + i) T(x): placement construction; building over a constructed
\* element ends its lifetime without a destructor call
ConstructAt(m, b, i, x) ==
    IF FailsNext(m) THEN Throw(m)
    ELSE LET over == InBuf(m, b, i) /\ SlotAt(m, b, i) # Raw
             m1 == Store(Tick(m), b, i, x)
         IN [m1 EXCEPT !.constructed = @ + 1,
                       !.leaked = IF over THEN @ + 1 ELSE @]

\* new (db + di) T(sb[si]): copy construction from a slot
CopyConstructAt(m, db, di, sb, si) ==
    LET m0 == IF LoadUB(m, sb, si) THEN [m EXCEPT !.ub = TRUE] ELSE m
    IN ConstructAt(m0, db, di, Load(m, sb, si))

\* new (db + di) T(std::move(sb[si])): move construction from a slot; it
\* cannot fail when T is nothrow move constructible
MoveConstructAt(m, db, di, sb, si) ==
    IF ~NothrowMove(m) /\ FailsNext(m) THEN Throw(m)
    ELSE LET m0 == IF LoadUB(m, sb, si) THEN [m EXCEPT !.ub = TRUE] ELSE m
             over == InBuf(m, db, di) /\ SlotAt(m, db, di) # Raw
             m1 == Store(IF NothrowMove(m) THEN m0 ELSE Tick(m0), db, di, Load(m, sb, si))
             m2 == Store(m1, sb, si, MovedFrom)
         IN [m2 EXCEPT !.constructed = @ + 1,
                       !.leaked = IF over THEN @ + 1 ELSE @]

\* db[di] = x: assignment to a constructed element (to a raw slot: undefined)
AssignAt(m, b, i, x, canFail) ==
    IF canFail /\ FailsNext(m) THEN Throw(m)
    ELSE LET m0 == IF LoadUB(m, b, i) THEN [m EXCEPT !.ub = TRUE] ELSE m
             m1 == Store(IF canFail THEN Tick(m0) ELSE m0, b, i, x)
         IN [m1 EXCEPT !.assigned = @ + 1]

\* db[di] = sb[si]
CopyAssignAt(m, db, di, sb, si) ==
    LET m0 == IF LoadUB(m, sb, si) THEN [m EXCEPT !.ub = TRUE] ELSE m
    IN AssignAt(m0, db, di, Load(m, sb, si), TRUE)

\* db[di] = std::move(sb[si])
MoveAssignAt(m, db, di, sb, si) ==
    Then(AssignAt(IF LoadUB(m, sb, si) THEN [m EXCEPT !.ub = TRUE] ELSE m,
                  db, di, Load(m, sb, si), ~NothrowMove(m)),
         LAMBDA a : Store(a, sb, si, MovedFrom))

\* std::destroy_at(b + i): the destructor never fails; on a raw slot it is
\* undefined behaviour
DestroyAt(m, b, i) ==
    IF InBuf(m, b, i) /\ SlotAt(m, b, i) # Raw
    THEN [Store(m, b, i, Raw) EXCEPT !.destroyed = @ + 1]
    ELSE [m EXCEPT !.ub = TRUE, !.baddtor = TRUE]

\* std::destroy_n(b + i, n) and std::destroy(b + i, b + i + n)
RECURSIVE destroy_n(_, _, _, _)
destroy_n(m, b, i, n) ==
    IF n <= 0 THEN m ELSE destroy_n(DestroyAt(m, b, i), b, i + 1, n - 1)

\* std::uninitialized_copy_n(sb + si, n, db + di): copy constructs in index
\* order; when a copy fails the elements already built are destroyed and the
\* exception is rethrown
RECURSIVE uninit_copy_from(_, _, _, _, _, _, _)
uninit_copy_from(m, sb, si, n, db, di, k) ==
    IF k >= n THEN m
    ELSE Try(CopyConstructAt(m, db, di + k, sb, si + k),
             LAMBDA a : uninit_copy_from(a, sb, si, n, db, di, k + 1),
             LAMBDA a : destroy_n(a, db, di, k))
uninitialized_copy_n(m, sb, si, n, db, di) == uninit_copy_from(m, sb, si, n, db, di, 0)

\* std::uninitialized_move_n(sb + si, n, db + di): as above with move
\* construction; the sources already moved from stay moved from
RECURSIVE uninit_move_from(_, _, _, _, _, _, _)
uninit_move_from(m, sb, si, n, db, di, k) ==
    IF k >= n THEN m
    ELSE Try(MoveConstructAt(m, db, di + k, sb, si + k),
             LAMBDA a : uninit_move_from(a, sb, si, n, db, di, k + 1),
             LAMBDA a : destroy_n(a, db, di, k))
uninitialized_move_n(m, sb, si, n, db, di) == uninit_move_from(m, sb, si, n, db, di, 0)

\* std::uninitialized_value_construct_n(b + i, n)
RECURSIVE uninit_value_from(_, _, _, _, _)
uninit_value_from(m, b, i, n, k) ==
    IF k >= n THEN m
    ELSE Try(ConstructAt(m, b, i + k, DefaultVal),
             LAMBDA a : uninit_value_from(a, b, i, n, k + 1),
             LAMBDA a : destroy_n(a, b, i, k))
\* a value construction that stops one element short
ValueConstructOneLess(m, b, i, n) == uninit_value_from(m, b, i, n - 1, 0)
uninitialized_value_construct_n(m, b, i, n) == uninit_value_from(m, b, i, n, 0)

\* std::copy(sb + si, sb + si + n, db + di): copy assignment, front to back
RECURSIVE std_copy(_, _, _, _, _, _)
std_copy(m, sb, si, n, db, di) ==
    IF n <= 0 THEN m
    ELSE Then(CopyAssignAt(m, db, di, sb, si),
              LAMBDA a : std_copy(a, sb, si + 1, n - 1, db, di + 1))

\* std::move(sb + si, sb + si + n, db + di): move assignment, front to back
RECURSIVE std_move(_, _, _, _, _, _)
std_move(m, sb, si, n, db, di) ==
    IF n <= 0 THEN m
    ELSE Then(MoveAssignAt(m, db, di, sb, si),
              LAMBDA a : std_move(a, sb, si + 1, n - 1, db, di + 1))

\* a shift of [first, last) up to end at dlast that runs front to back as
\* std::move does
MoveForward(m, b, first, lst, dlast) ==
    std_move(m, b, first, lst - first, b, dlast - (lst - first))

\* std::move_backward(b + first, b + last, b + dlast): move assignment, back
\* to front, the last source element going to dlast - 1
RECURSIVE move_backward(_, _, _, _, _)
move_backward(m, b, first, lst, dlast) ==
    IF lst <= first THEN m
    ELSE Then(MoveAssignAt(m, b, dlast - 1, b, lst - 1),
              LAMBDA a : move_backward(a, b, first, lst - 1, dlast - 1))

\* a migration that moves whatever T offers
MigrateAlwaysMoves(m, sb, si, n, db, di) == uninitialized_move_n(m, sb, si, n, db, di)

\* the migration of n elements into new storage that EmplaceBack, Emplace
\* and Reserve select with "if constexpr"
Migrate(m, sb, si, n, db, di) ==
    IF MigrateByMove(m) THEN uninitialized_move_n(m, sb, si, n, db, di)
    ELSE uninitialized_copy_n(m, sb, si, n, db, di)

\* ------------------------------------------------------------- RawMemory
HasFree(m) == \E b \in BufIds : ~m.heap[b].alloc
FirstFree(m) == CHOOSE b \in BufIds : ~m.heap[b].alloc /\ \A c \in BufIds : c < b => m.heap[c].alloc

\* RawMemory(capacity): Allocate gives nullptr for 0 slots and operator new
\* throws when it cannot allocate; the buffer is left in m.newbuf
Allocate(m, n) ==
    IF n = 0 THEN [m EXCEPT !.newbuf = Null]
    ELSE IF m.allocFail \/ ~HasFree(m)
         THEN [m EXCEPT !.exc = TRUE, !.failed = TRUE, !.newbuf = Null]
         ELSE [m EXCEPT !.heap[FirstFree(m)] = [alloc |-> TRUE, slots |-> [i \in 1 .. n |-> Raw]],
                        !.allocs = @ + 1, !.newbuf = FirstFree(m)]

\* ~RawMemory(): Deallocate(buffer_); no element destructor runs, so what is
\* still constructed in the buffer is lost with it
Deallocate(m, b) ==
    IF b = Null THEN m
    ELSE IF ~m.heap[b].alloc THEN [m EXCEPT !.ub = TRUE, !.releases = @ + 1]
    ELSE [m EXCEPT !.heap[b] = FreeBuf, !.releases = @ + 1,
                   !.leaked = @ + LiveIn(m, b)]

\* ----------------------------------------------------------------- Vector
Data(m, v) == m.vec[v].data
Size(m, v) == m.vec[v].size
Capacity(m, v) == m.vec[v].cap
Path(m, p) == [m EXCEPT !.path = p]
\* names the step s as the one that failed, when m is the call just after it
Stage(m, s) == IF m.failed /\ m.stage = "none" THEN [m EXCEPT !.stage = s] ELSE m

\* a RawMemory::Swap that exchanges buffer_ and leaves capacity_ as it is
SwapBufferOnly(m, v, nb, ncap) ==
    Deallocate([m EXCEPT !.vec[v].data = nb], Data(m, v))

\* data_.Swap(new_data) followed by ~RawMemory of new_data, which then owns
\* the old buffer
SwapInAndRelease(m, v, nb, ncap) ==
    Deallocate([m EXCEPT !.vec[v].data = nb, !.vec[v].cap = ncap], Data(m, v))

\* a growth by one slot
GrowByOne(size) == size + 1

\* the capacity EmplaceBack and Emplace allocate when size_ == Capacity()
GrowCapacity(size) == IF size = 0 THEN 1 ELSE size * 2

\* a sized constructor whose storage is not released when a constructor of
\* an element fails
SizedCtorNoRelease(m, v, n) ==
    Then(Stage(Allocate(m, n), "alloc"), LAMBDA m1 :
    Then(Stage(uninitialized_value_construct_n(m1, m1.newbuf, 0, n), "construct"),
         LAMBDA m2 : [m2 EXCEPT !.vec[v] = [alive |-> TRUE, data |-> m1.newbuf,
                                            cap |-> n, size |-> n]]))

\* Vector(size_t size): a failure of a constructor unwinds through
\* ~RawMemory of data_ and no object exists
SizedCtor(m, v, n) ==
    Then(Stage(Allocate(m, n), "alloc"), LAMBDA m1 :
    Try(Stage(uninitialized_value_construct_n(m1, m1.newbuf, 0, n), "construct"),
        LAMBDA m2 : [m2 EXCEPT !.vec[v] = [alive |-> TRUE, data |-> m1.newbuf,
                                           cap |-> n, size |-> n]],
        LAMBDA m2 : Deallocate(m2, m1.newbuf)))

\* Vector(const Vector& other)
CopyCtor(m, v, o) ==
    Then(Stage(Allocate(m, Size(m, o)), "alloc"), LAMBDA m1 :
    Try(Stage(uninitialized_copy_n(m1, Data(m, o), 0, Size(m, o), m1.newbuf, 0), "copy"),
        LAMBDA m2 : [m2 EXCEPT !.vec[v] = [alive |-> TRUE, data |-> m1.newbuf,
                                           cap |-> Size(m, o), size |-> Size(m, o)]],
        LAMBDA m2 : Deallocate(m2, m1.newbuf)))

\* ~Vector(): std::destroy_n(data_, size_), then ~RawMemory
Dtor(m, v) ==
    [Deallocate(destroy_n(m, Data(m, v), 0, Size(m, v)), Data(m, v)) EXCEPT !.vec[v] = NoVec]

\* a Swap that exchanges data_ and leaves each size_ as it is
SwapDataOnly(m, v, o) ==
    [m EXCEPT !.vec[v] = [m.vec[v] EXCEPT !.data = m.vec[o].data, !.cap = m.vec[o].cap],
              !.vec[o] = [m.vec[o] EXCEPT !.data = m.vec[v].data, !.cap = m.vec[v].cap]]

\* Swap(Vector& other): data_.Swap(other.data_); std::swap(size_, other.size_)
SwapVec(m, v, o) ==
    [m EXCEPT !.vec[v] = [m.vec[v] EXCEPT !.data = m.vec[o].data, !.cap = m.vec[o].cap,
                                          !.size = m.vec[o].size],
              !.vec[o] = [m.vec[o] EXCEPT !.data = m.vec[v].data, !.cap = m.vec[v].cap,
                                          !.size = m.vec[v].size]]

\* Vector(Vector&& other): a default constructed vector swapped with other
MoveCtor(m, v, o) == SwapVec([m EXCEPT !.vec[v] = EmptyVec], v, o)

\* operator=(Vector&& rhs)
MoveAssign(m, v, o) == IF v # o THEN SwapVec(m, v, o) ELSE m

\* a Reserve that returns early only for new_capacity < Capacity()
ReserveAtEqualCapacity(m, v, ncap) ==
    IF ncap < Capacity(m, v) THEN Path(m, "noop")
    ELSE Then(Stage(Allocate(Path(m, "realloc"), ncap), "alloc"), LAMBDA m1 :
         Try(Stage(Migrate(m1, Data(m, v), 0, Size(m, v), m1.newbuf, 0), "migrate"),
             LAMBDA m2 : SwapInAndRelease(destroy_n(m2, Data(m, v), 0, Size(m, v)),
                                          v, m1.newbuf, ncap),
             LAMBDA m2 : Deallocate(m2, m1.newbuf)))

\* Reserve(new_capacity)
Reserve(m, v, ncap) ==
    IF ncap <= Capacity(m, v) THEN Path(m, "noop")
    ELSE Then(Stage(Allocate(Path(m, "realloc"), ncap), "alloc"), LAMBDA m1 :
         Try(Stage(Migrate(m1, Data(m, v), 0, Size(m, v), m1.newbuf, 0), "migrate"),
             LAMBDA m2 : SwapInAndRelease(destroy_n(m2, Data(m, v), 0, Size(m, v)),
                                          v, m1.newbuf, ncap),
             LAMBDA m2 : Deallocate(m2, m1.newbuf)))

\* Resize(new_size)
Resize(m, v, n) ==
    IF n < Size(m, v)
    THEN [destroy_n(Path(m, "shrink"), Data(m, v), n, Size(m, v) - n) EXCEPT !.vec[v].size = n]
    ELSE IF n = Size(m, v) THEN Path(m, "same")
    ELSE IF n <= Capacity(m, v)
    THEN Then(Stage(uninitialized_value_construct_n(Path(m, "grow"), Data(m, v),
                                                    Size(m, v), n - Size(m, v)),
                    "construct"),
              LAMBDA m1 : [m1 EXCEPT !.vec[v].size = n])
    ELSE Then([Reserve(m, v, n) EXCEPT !.path = "growrealloc"], LAMBDA m1 :
         Then(Stage(uninitialized_value_construct_n(m1, Data(m1, v), Size(m1, v),
                                                    n - Size(m1, v)),
                    "construct"),
              LAMBDA m2 : [m2 EXCEPT !.vec[v].size = n]))

\* an EmplaceBack that migrates the old elements before it constructs the
\* new one
EmplaceBackMigrateFirst(m, v, x) ==
    IF Size(m, v) = Capacity(m, v)
    THEN Then(Stage(Allocate(Path(m, "realloc"), GrowCapacity(Size(m, v))), "alloc"),
         LAMBDA m1 :
         Try(Stage(Migrate(m1, Data(m, v), 0, Size(m, v), m1.newbuf, 0), "migrate"),
             LAMBDA m2 :
             Try(Stage(ConstructAt(m2, m1.newbuf, Size(m, v), x), "construct"),
                 LAMBDA m3 :
                 [SwapInAndRelease(destroy_n(m3, Data(m, v), 0, Size(m, v)),
                                   v, m1.newbuf, GrowCapacity(Size(m, v)))
                      EXCEPT !.vec[v].size = Size(m, v) + 1, !.ret = Size(m, v)],
                 LAMBDA m3 : Deallocate(m3, m1.newbuf)),
             LAMBDA m2 : Deallocate(m2, m1.newbuf)))
    ELSE Then(Stage(ConstructAt(Path(m, "inplace"), Data(m, v), Size(m, v), x), "construct"),
              LAMBDA m1 : [m1 EXCEPT !.vec[v].size = Size(m, v) + 1, !.ret = Size(m, v)])

\* EmplaceBack(args...), x the value the arguments construct; returns Back()
EmplaceBack(m, v, x) ==
    IF Size(m, v) = Capacity(m, v)
    THEN Then(Stage(Allocate(Path(m, "realloc"), GrowCapacity(Size(m, v))), "alloc"),
         LAMBDA m1 :
         Try(Stage(ConstructAt(m1, m1.newbuf, Size(m, v), x), "construct"),
             LAMBDA m2 :
             Try(Stage(Migrate(m2, Data(m, v), 0, Size(m, v), m1.newbuf, 0), "migrate"),
                 LAMBDA m3 :
                 [SwapInAndRelease(destroy_n(m3, Data(m, v), 0, Size(m, v)),
                                   v, m1.newbuf, GrowCapacity(Size(m, v)))
                      EXCEPT !.vec[v].size = Size(m, v) + 1, !.ret = Size(m, v)],
                 LAMBDA m3 : Deallocate(m3, m1.newbuf)),
             LAMBDA m2 : Deallocate(m2, m1.newbuf)))
    ELSE Then(Stage(ConstructAt(Path(m, "inplace"), Data(m, v), Size(m, v), x), "construct"),
              LAMBDA m1 : [m1 EXCEPT !.vec[v].size = Size(m, v) + 1, !.ret = Size(m, v)])

\* PushBack(value)
PushBack(m, v, x) == EmplaceBack(m, v, x)

\* PopBack()
PopBack(m, v) ==
    [DestroyAt(m, Data(m, v), Size(m, v) - 1) EXCEPT !.vec[v].size = Size(m, v) - 1]

\* an Erase that shifts nothing down and destroys the last element
EraseWithoutShift(m, v, shift) ==
    [DestroyAt(m, Data(m, v), Size(m, v) - 1)
         EXCEPT !.vec[v].size = Size(m, v) - 1, !.ret = shift]

\* Erase(pos), shift = pos - begin()
Erase(m, v, shift) ==
    Then(Stage(IF MigrateByMove(m)
               THEN std_move(m, Data(m, v), shift + 1, Size(m, v) - shift - 1, Data(m, v), shift)
               ELSE std_copy(m, Data(m, v), shift + 1, Size(m, v) - shift - 1, Data(m, v), shift),
               "shift"),
         LAMBDA m1 : [DestroyAt(m1, Data(m, v), Size(m, v) - 1)
                          EXCEPT !.vec[v].size = Size(m, v) - 1, !.ret = shift])

\* a catch block that only rethrows
ShiftFailedNoDestroy(m, v) == m

\* the catch block of Emplace's shift within capacity: std::destroy_n(end(), 1)
\* and throw
ShiftFailed(m, v) == DestroyAt(m, Data(m, v), Size(m, v))

\* Emplace(pos, args...), shift = pos - begin(), x the value the arguments
\* construct.  In the reallocating branch each catch block ends without a
\* throw, so the function goes on after a failed migration, and the second
\* catch block destroys [begin(), begin() + shift + 1) of data_.
Emplace(m, v, shift, x) ==
    IF Size(m, v) = shift
    THEN Then([EmplaceBack(m, v, x) EXCEPT !.path = "back"],
              LAMBDA m1 : [m1 EXCEPT !.ret = Size(m1, v) - 1])
    ELSE IF Size(m, v) = Capacity(m, v)
    THEN Then(Stage(Allocate(Path(m, "realloc"), GrowCapacity(Size(m, v))), "alloc"),
         LAMBDA m1 :
         Try(Stage(ConstructAt(m1, m1.newbuf, shift, x), "construct"),
             LAMBDA m2 :
             Then(Try(Stage(Migrate(m2, Data(m, v), 0, shift, m1.newbuf, 0), "prefix"),
                      LAMBDA m3 : m3,
                      LAMBDA m3 : Caught(DestroyAt(m3, m1.newbuf, shift))),
             LAMBDA m3c :
             Then(Try(Stage(Migrate(m3c, Data(m, v), shift, Size(m, v) - shift,
                                    m1.newbuf, shift + 1), "suffix"),
                      LAMBDA m4 : m4,
                      LAMBDA m4 : Caught(destroy_n(m4, Data(m, v), 0, shift + 1))),
             LAMBDA m4c :
             [SwapInAndRelease(destroy_n(m4c, Data(m, v), 0, Size(m, v)),
                               v, m1.newbuf, GrowCapacity(Size(m, v)))
                  EXCEPT !.vec[v].size = Size(m, v) + 1, !.ret = shift])),
             LAMBDA m2 : Deallocate(m2, m1.newbuf)))
    ELSE \* auto new_value = T(args...)
         Then(Stage(IF FailsNext(m) THEN Throw(Path(m, "shift")) ELSE Tick(Path(m, "shift")),
                    "construct"),
         LAMBDA m1 :
         \* new (data_ + size_) T(std::move(*std::prev(end())))
         Then(Stage(MoveConstructAt(m1, Data(m, v), Size(m, v), Data(m, v), Size(m, v) - 1),
                    "tail"),
         LAMBDA m2 :
         Try(Stage(move_backward(m2, Data(m, v), shift, Size(m, v) - 1, Size(m, v)), "shift"),
             LAMBDA m3 :
             \* *pos = std::move(new_value)
             Then(Stage(AssignAt(m3, Data(m, v), shift, x, ~NothrowMove(m)), "assign"),
                  LAMBDA m4 : [m4 EXCEPT !.vec[v].size = Size(m, v) + 1, !.ret = shift]),
             LAMBDA m3 : ShiftFailed(m3, v))))

\* Insert(pos, value)
Insert(m, v, shift, x) == Emplace(m, v, shift, x)

\* a copy assignment that destroys its own elements before it copies
CopyAssignDestroyFirst(m, v, o) ==
    IF v = o THEN Path(m, "self")
    ELSE Then(Stage(Allocate(Path([destroy_n(m, Data(m, v), 0, Size(m, v))
                                       EXCEPT !.vec[v].size = 0], "copyswap"),
                             Size(m, o)), "alloc"), LAMBDA m1 :
         Try(Stage(uninitialized_copy_n(m1, Data(m, o), 0, Size(m, o), m1.newbuf, 0), "copy"),
             LAMBDA m2 : [SwapInAndRelease(m2, v, m1.newbuf, Size(m, o))
                              EXCEPT !.vec[v].size = Size(m, o)],
             LAMBDA m2 : Deallocate(m2, m1.newbuf)))

\* a copy assignment that takes over the storage of rhs
CopyAssignShallow(m, v, o) == [Path(m, "copyswap") EXCEPT !.vec[v] = m.vec[o]]

\* operator=(const Vector& rhs)
CopyAssign(m, v, o) ==
    IF v = o THEN Path(m, "self")
    ELSE IF Size(m, o) > Capacity(m, v)
    THEN \* Vector copy(rhs); Swap(copy); ~Vector of copy
         Then(Stage(Allocate(Path(m, "copyswap"), Size(m, o)), "alloc"), LAMBDA m1 :
         Try(Stage(uninitialized_copy_n(m1, Data(m, o), 0, Size(m, o), m1.newbuf, 0), "copy"),
             LAMBDA m2 :
             Deallocate(destroy_n([m2 EXCEPT !.vec[v].data = m1.newbuf,
                                             !.vec[v].cap = Size(m, o),
                                             !.vec[v].size = Size(m, o)],
                                  Data(m, v), 0, Size(m, v)),
                        Data(m, v)),
             LAMBDA m2 : Deallocate(m2, m1.newbuf)))
    ELSE IF Size(m, o) < Size(m, v)
    THEN Then(Stage(std_copy(Path(m, "shrink"), Data(m, o), 0, Size(m, o), Data(m, v), 0),
                    "assign"),
              LAMBDA m1 : [destroy_n(m1, Data(m, v), Size(m, o), Size(m, v) - Size(m, o))
                               EXCEPT !.vec[v].size = Size(m, o)])
    ELSE Then(Stage(std_copy(Path(m, "grow"), Data(m, o), 0, Size(m, v), Data(m, v), 0),
                    "assign"),
         LAMBDA m1 :
         Then(Stage(uninitialized_copy_n(m1, Data(m, o), Size(m, v), Size(m, o) - Size(m, v),
                                         Data(m, v), Size(m, v)), "copy"),
              LAMBDA m2 : [m2 EXCEPT !.vec[v].size = Size(m, o)]))

\* ------------------------------------------------------------------ calls
\* A call is an operation with its arguments: the vector v it is called on,
\* the other vector o, the number n (a size, a capacity, or pos - begin())
\* and the element value x.  Exec(a, f, g) is the whole call a under the
\* faults f, a read of a raw slot giving g.
Args(op, v, o, n, x) == [op |-> op, v |-> v, o |-> o, n |-> n, x |-> x]

Exec(a, f, g) ==
    LET m == Start(heap, vec, elemType, f.fails, f.alloc, g) IN
    CASE a.op = "Vector" -> [m EXCEPT !.vec[a.v] = EmptyVec]
      [] a.op = "SizedCtor" -> SizedCtor(m, a.v, a.n)
      [] a.op = "CopyCtor" -> CopyCtor(m, a.v, a.o)
      [] a.op = "MoveCtor" -> MoveCtor(m, a.v, a.o)
      [] a.op = "Dtor" -> Dtor(m, a.v)
      [] a.op = "CopyAssign" -> CopyAssign(m, a.v, a.o)
      [] a.op = "MoveAssign" -> MoveAssign(m, a.v, a.o)
      [] a.op = "Swap" -> SwapVec(m, a.v, a.o)
      [] a.op = "Resize" -> Resize(m, a.v, a.n)
      [] a.op = "Reserve" -> Reserve(m, a.v, a.n)
      [] a.op = "PushBack" -> PushBack(m, a.v, a.x)
      [] a.op = "Insert" -> Insert(m, a.v, a.n, a.x)
      [] a.op = "Erase" -> Erase(m, a.v, a.n)
      [] a.op = "PopBack" -> PopBack(m, a.v)

\* the faults of one call: none, the allocation fails, one element operation
\* fails, or (in a call that goes on after a failure) a later one fails too;
\* only the faults the call can meet are drawn
NoFault == [alloc |-> FALSE, fails |-> {}]
AllocFault == [alloc |-> TRUE, fails |-> {}]
Fail(S) == [alloc |-> FALSE, fails |-> S]
FaultsAfter(r, k) == IF r.exc THEN {} ELSE {Fail({k, j}) : j \in (k + 1) .. r.n}
FaultsOf(dry, a, g) ==
    {NoFault} \cup (IF dry.allocs > 0 THEN {AllocFault} ELSE {}) \cup
    {Fail({k}) : k \in 1 .. dry.n} \cup
    UNION {FaultsAfter(Exec(a, Fail({k}), g), k) : k \in 1 .. dry.n}
Faults(a, g) == FaultsOf(Exec(a, NoFault, g), a, g)

\* what a read of a raw slot can give: it matters only where a vector has a
\* raw slot below its size
Broken == \E v \in Vectors : \E i \in 0 .. (vec[v].size - 1) :
              vec[v].data = Null \/ heap[vec[v].data].slots[i + 1] = Raw
Garbage == IF Broken THEN Values ELSE {DefaultVal}

\* the calls with arguments in S, each with the faults it can meet, and the
\* call record a call ends with
CallsOf(S) ==
    UNION {{[a |-> a, f |-> f, g |-> g] : f \in Faults(a, g)} : a \in S, g \in Garbage}
Run(c) == Exec(c.a, c.f, c.g)

\* the bound of the model: a call that would leave the two vectors with more
\* than MaxCap slots together is left out
Fits(v, ncap) == ncap + vec[3 - v].cap <= MaxCap
CanGrow(v) == vec[v].size < vec[v].cap \/ Fits(v, GrowCapacity(vec[v].size))
Alive(v) == ~halted /\ vec[v].alive
Unborn(v) == ~halted /\ ~vec[v].alive

\* the arguments each operation can be called with in the current state:
\* the object exists (or, for a constructor, does not yet), the asserted
\* preconditions hold, and copies are asked only of a copyable T
DefaultCtorArgs(v) == IF Unborn(v) THEN {Args("Vector", v, 0, 0, 0)} ELSE {}
SizedCtorArgs(v) ==
    IF Unborn(v) THEN {Args("SizedCtor", v, 0, n, 0) : n \in {k \in 0 .. MaxCap : Fits(v, k)}}
    ELSE {}
CopyCtorArgs(v, o) ==
    IF Unborn(v) /\ Alive(o) /\ elemType # "ThrowingMoveOnly" /\ Fits(v, vec[o].size)
    THEN {Args("CopyCtor", v, o, 0, 0)} ELSE {}
MoveCtorArgs(v, o) == IF Unborn(v) /\ Alive(o) THEN {Args("MoveCtor", v, o, 0, 0)} ELSE {}
DtorArgs(v) == IF Alive(v) THEN {Args("Dtor", v, 0, 0, 0)} ELSE {}
CopyAssignArgs(v, o) ==
    IF /\ Alive(v) /\ Alive(o) /\ elemType # "ThrowingMoveOnly"
       /\ (v = o \/ vec[o].size <= vec[v].cap \/ Fits(v, vec[o].size))
    THEN {Args("CopyAssign", v, o, 0, 0)} ELSE {}
MoveAssignArgs(v, o) == IF Alive(v) /\ Alive(o) THEN {Args("MoveAssign", v, o, 0, 0)} ELSE {}
SwapArgs(v, o) == IF Alive(v) /\ Alive(o) THEN {Args("Swap", v, o, 0, 0)} ELSE {}
ResizeArgs(v) ==
    IF Alive(v) THEN {Args("Resize", v, 0, n, 0) : n \in {k \in 0 .. MaxCap : Fits(v, k)}}
    ELSE {}
ReserveArgs(v) ==
    IF Alive(v) THEN {Args("Reserve", v, 0, n, 0) : n \in {k \in 0 .. MaxCap : Fits(v, k)}}
    ELSE {}
PushBackArgs(v) ==
    IF Alive(v) /\ CanGrow(v) THEN {Args("PushBack", v, 0, 0, x) : x \in Values} ELSE {}
\* assert(pos >= begin() && pos <= end())
InsertArgs(v) ==
    IF Alive(v) /\ CanGrow(v)
    THEN {Args("Insert", v, 0, shift, x) : shift \in 0 .. vec[v].size, x \in Values}
    ELSE {}
\* assert(pos >= begin() && pos < end())
EraseArgs(v) ==
    IF Alive(v) THEN {Args("Erase", v, 0, shift, 0) : shift \in 0 .. (vec[v].size - 1)}
    ELSE {}
\* assert(size_ > 0)
PopBackArgs(v) == IF Alive(v) /\ vec[v].size > 0 THEN {Args("PopBack", v, 0, 0, 0)} ELSE {}

\* ---------------------------------------------------------------- actions
\* Buffer identities are only ever compared with each other, so between
\* calls the buffers are renamed to put the buffer of vector v, when it has
\* one, at identity v: states that differ in the names of their buffers
\* alone are one state.
Owner(m, a) == IF \E v \in Vectors : m.vec[v].data = a
               THEN CHOOSE v \in Vectors : m.vec[v].data = a /\
                                           \A u \in Vectors : u < v => m.vec[u].data # a
               ELSE 0
Rank(S, a) == Cardinality({b \in S : b < a})
Renaming(m) ==
    LET unowned == {a \in BufIds : Owner(m, a) = 0}
        unused == BufIds \ {Owner(m, a) : a \in BufIds}
    IN [a \in BufIds |->
          IF Owner(m, a) # 0 THEN Owner(m, a)
          ELSE CHOOSE b \in unused : Rank(unused, b) = Rank(unowned, a)]
RenamedBy(m, p) ==
    [heap |-> [b \in BufIds |-> m.heap[CHOOSE a \in BufIds : p[a] = b]],
     vec |-> [v \in Vectors |->
                 [m.vec[v] EXCEPT !.data = IF @ = Null THEN Null ELSE p[@]]]]
Renamed(m) == RenamedBy(m, Renaming(m))

\* a call other than PushBack has ended as m on the vectors of S
Touch(m, S) ==
    [v \in Vectors |->
        IF v \notin S THEN pushes[v]
        ELSE IF m.vec[v].alive /\ m.vec[v].cap = 0 THEN 0 ELSE Mixed]
\* a PushBack call on v has ended as m
Pushed(m, v) ==
    IF pushes[v] # Mixed /\ ~m.failed THEN [pushes EXCEPT ![v] = @ + 1] ELSE pushes

\* the call c ends as m: its effects become the program state; past
\* undefined behaviour the program is followed no further
Commit(c, m, r) ==
    /\ heap' = r.heap
    /\ vec' = r.vec
    /\ halted' = m.ub
    /\ pushes' = IF c.a.op = "PushBack" THEN Pushed(m, c.a.v)
                 ELSE IF c.a.op \in {"MoveCtor", "MoveAssign", "Swap"}
                      THEN Touch(m, {c.a.v, c.a.o})
                      ELSE Touch(m, {c.a.v})
    /\ UNCHANGED elemType
Do(S) == \E c \in CallsOf(S) : \E m \in {Run(c)} : \E r \in {Renamed(m)} : Commit(c, m, r)

Init ==
    /\ heap = [b \in BufIds |-> FreeBuf]
    /\ vec = [v \in Vectors |-> EmptyVec]
    /\ elemType \in ElemTypes
    /\ halted = FALSE
    /\ pushes = [v \in Vectors |-> 0]

DoDefaultCtor(v) == Do(DefaultCtorArgs(v))
DoSizedCtor(v) == Do(SizedCtorArgs(v))
DoCopyCtor(v, o) == Do(CopyCtorArgs(v, o))
DoMoveCtor(v, o) == Do(MoveCtorArgs(v, o))
DoDtor(v) == Do(DtorArgs(v))
DoCopyAssign(v, o) == Do(CopyAssignArgs(v, o))
DoMoveAssign(v, o) == Do(MoveAssignArgs(v, o))
DoSwap(v, o) == Do(SwapArgs(v, o))
DoResize(v) == Do(ResizeArgs(v))
DoReserve(v) == Do(ReserveArgs(v))
DoPushBack(v) == Do(PushBackArgs(v))
DoInsert(v) == Do(InsertArgs(v))
DoErase(v) == Do(EraseArgs(v))
DoPopBack(v) == Do(PopBackArgs(v))

Next ==
    \E v \in Vectors :
        \/ DoDefaultCtor(v)
        \/ DoSizedCtor(v)
        \/ DoDtor(v)
        \/ DoResize(v)
        \/ DoReserve(v)
        \/ DoPushBack(v)
        \/ DoInsert(v)
        \/ DoErase(v)
        \/ DoPopBack(v)
        \/ \E o \in Vectors \ {v} : DoCopyCtor(v, o) \/ DoMoveCtor(v, o)
        \/ \E o \in Vectors : DoCopyAssign(v, o) \/ DoMoveAssign(v, o) \/ DoSwap(v, o)

Spec == Init /\ [][Next]_vars

\* ----------------------------------------------------------- properties
\* the elements of a vector in index order, before a call and after the call
\* that ends as m
Elems(h, vc) ==
    [i \in 1 .. vc.size |->
        IF vc.data # Null /\ i <= Len(h[vc.data].slots) THEN h[vc.data].slots[i] ELSE Raw]
Before(v) == Elems(heap, vec[v])
After(m, v) == Elems(m.heap, m.vec[v])
SameVector(m, v) ==
    /\ m.vec[v].size = vec[v].size
    /\ m.vec[v].cap = vec[v].cap
    /\ After(m, v) = Before(v)
Full(v) == vec[v].size = vec[v].cap
NoElementWork(m) ==
    /\ m.constructed = 0 /\ m.destroyed = 0 /\ m.assigned = 0 /\ m.n = 0
    /\ m.allocs = 0 /\ m.releases = 0
Inserted(s, p, x) ==
    [i \in 1 .. (Len(s) + 1) |-> IF i <= p THEN s[i] ELSE IF i = p + 1 THEN x ELSE s[i - 1]]
Erased(s, p) == [i \in 1 .. (Len(s) - 1) |-> IF i <= p THEN s[i] ELSE s[i + 1]]
RECURSIVE PowerOfTwoAtLeast(_)
PowerOfTwoAtLeast(k) == IF k <= 1 THEN 1 ELSE 2 * PowerOfTwoAtLeast((k + 1) \div 2)
\* every call the current state allows
AllArgs ==
    UNION {DefaultCtorArgs(v) \cup SizedCtorArgs(v) \cup DtorArgs(v) \cup ResizeArgs(v)
           \cup ReserveArgs(v) \cup PushBackArgs(v) \cup InsertArgs(v) \cup EraseArgs(v)
           \cup PopBackArgs(v)
           \cup UNION {CopyCtorArgs(v, o) \cup MoveCtorArgs(v, o) \cup CopyAssignArgs(v, o)
                       \cup MoveAssignArgs(v, o) \cup SwapArgs(v, o) : o \in Vectors}
           : v \in Vectors}

\* C1: in every reachable state (before undefined behaviour) every slot of a
\* vector below its size holds a constructed element and every slot from its
\* size up to its capacity is raw, also after calls that failed.
C1_SlotsLiveBelowSizeRawAbove ==
    \A v \in Vectors : Alive(v) =>
        /\ vec[v].cap > 0 => vec[v].data # Null /\ Len(heap[vec[v].data].slots) = vec[v].cap
        /\ \A i \in 1 .. vec[v].cap : (heap[vec[v].data].slots[i] # Raw) <=> (i <= vec[v].size)

\* C2: in every reachable state, whether the calls before it succeeded or
\* failed, the size of each vector is at least 0 and at most its capacity.
C2_SizeWithinCapacity ==
    \A v \in Vectors : 0 <= vec[v].size /\ vec[v].size <= vec[v].cap

\* a full vector of two or more elements on which a reallocating PushBack
\* fails while migrating and leaves the vector full
C2_Witness ==
    \E v \in Vectors :
        /\ vec[v].size >= 2 /\ Full(v)
        /\ \E c \in CallsOf(PushBackArgs(v)) :
              Run(c).exc /\ Run(c).stage = "migrate" /\ Run(c).vec[v].size = Run(c).vec[v].cap

\* C3 as stated: when PushBack on a full vector fails while migrating the
\* existing elements, by copy or by move, the vector has the size, capacity
\* and element values it had before the call.
C3_FailedMigrationLeavesVectorUnchanged ==
    \A v \in Vectors : \A c \in CallsOf(PushBackArgs(v)) :
        LET m == Run(c) IN
        (Full(v) /\ m.exc /\ m.stage = "migrate" /\ ~m.ub) => SameVector(m, v)

\* C3: when PushBack on a full vector fails while migrating element k, the
\* vector keeps its storage, size and capacity; migrated by copy it keeps
\* every element value, migrated by move it keeps the elements from index k
\* on and those below k are left moved-from.
C3_FailedMigrationKeepsSizeAndUnmovedElements ==
    \A v \in Vectors : \A c \in CallsOf(PushBackArgs(v)) :
        LET m == Run(c)
            k == m.failAt - 2
        IN (Full(v) /\ m.exc /\ m.stage = "migrate" /\ ~m.ub) =>
              /\ m.vec[v] = vec[v]
              /\ \A i \in 1 .. vec[v].size :
                    After(m, v)[i] = IF MigrateByMove(m) /\ i <= k THEN MovedFrom
                                     ELSE Before(v)[i]

\* a PushBack on a full vector of a move-only type whose move of element 1
\* fails after element 0, which held another value, was moved from
C3_Witness ==
    \E v \in Vectors : \E c \in CallsOf(PushBackArgs(v)) :
        /\ Full(v) /\ vec[v].size >= 2 /\ Before(v)[1] # MovedFrom
        /\ Run(c).exc /\ Run(c).stage = "migrate" /\ ~Run(c).ub
        /\ Run(c).failAt >= 3 /\ After(Run(c), v)[1] = MovedFrom
\* C4 as stated: when Insert before end() on a full vector fails while
\* migrating the prefix or the suffix, everything constructed in the new
\* storage is destroyed, the old storage is untouched, and the vector has the
\* size, capacity and contents it had before the call.
C4_FailedInsertMigrationLeavesVectorUnchanged ==
    \A v \in Vectors : \A c \in CallsOf(InsertArgs(v)) :
        LET m == Run(c) IN
        (Full(v) /\ c.a.n < vec[v].size /\ m.stage \in {"prefix", "suffix"}) =>
            /\ m.vec[v] = vec[v]
            /\ SameVector(m, v)
            /\ m.leaked = 0
            /\ ~m.ub

\* C5 as stated: every call in which an allocation or an element operation
\* fails ends with the exception propagating to its caller.
C5_EveryFailurePropagates ==
    \A c \in CallsOf(AllArgs) : Run(c).failed => Run(c).exc

\* C6 as stated: no call releases a buffer that still holds a constructed
\* element or ends the lifetime of an element without its destructor, and
\* after a call every allocated buffer is the storage of a vector.
C6_StorageReleasedAfterElementsDestroyed ==
    \A c \in CallsOf(AllArgs) :
        LET m == Run(c) IN
        /\ m.leaked = 0
        /\ \A b \in BufIds : m.heap[b].alloc =>
              \E v \in Vectors : m.vec[v].alive /\ m.vec[v].data = b
\* C7: a successful Insert(pos, x) on a vector holding s leaves it holding
\* s[0..pos) ++ [x] ++ s[pos..) with size one more and returns pos, in each
\* of its paths: pos == end(), reallocation, and shift within capacity.
C7_InsertPlacesValueAtPosition ==
    \A v \in Vectors : \A c \in CallsOf(InsertArgs(v)) :
        LET m == Run(c) IN
        (~m.failed /\ ~m.ub) =>
            /\ m.path \in {"back", "realloc", "shift"}
            /\ m.vec[v].size = vec[v].size + 1
            /\ After(m, v) = Inserted(Before(v), c.a.n, c.a.x)
            /\ m.ret = c.a.n

\* a state in which Insert succeeds on each of its three paths, the
\* shifting one before an element of another value
C7_Witness ==
    /\ \E v \in Vectors : \E c \in CallsOf(InsertArgs(v)) :
          /\ Run(c).path = "shift" /\ ~Run(c).failed /\ ~Run(c).ub
          /\ c.a.x # Before(v)[c.a.n + 1] /\ Run(c).assigned >= 1
    /\ \E v \in Vectors : \E c \in CallsOf(InsertArgs(v)) :
          Run(c).path = "realloc" /\ ~Run(c).failed /\ ~Run(c).ub
    /\ \E v \in Vectors : \E c \in CallsOf(InsertArgs(v)) :
          Run(c).path = "back" /\ ~Run(c).failed /\ ~Run(c).ub /\ vec[v].size > 0

\* C8: a successful Erase(pos) on a vector holding s leaves it holding
\* s[0..pos) ++ s[pos+1..) with size one less, destroys exactly one slot, the
\* old last one, leaves the storage and capacity as they were and returns
\* pos.
C8_EraseRemovesOneElement ==
    \A v \in Vectors : \A c \in CallsOf(EraseArgs(v)) :
        LET m == Run(c) IN
        (~m.failed /\ ~m.ub) =>
            /\ m.vec[v].size = vec[v].size - 1
            /\ After(m, v) = Erased(Before(v), c.a.n)
            /\ m.destroyed = 1
            /\ m.heap[vec[v].data].slots[vec[v].size] = Raw
            /\ m.vec[v].cap = vec[v].cap /\ m.vec[v].data = vec[v].data
            /\ m.ret = c.a.n

\* a successful Erase of the first of three elements of which the last two
\* differ
C8_Witness ==
    \E v \in Vectors : \E c \in CallsOf(EraseArgs(v)) :
        /\ vec[v].size >= 3 /\ c.a.n = 0 /\ Before(v)[2] # Before(v)[3]
        /\ ~Run(c).failed /\ ~Run(c).ub /\ Run(c).assigned = 2

\* C9: after k >= 1 successful PushBack calls on an empty vector with no
\* capacity its capacity is the smallest power of two that is at least k; a
\* successful PushBack on a full vector makes the capacity max(1, 2 * old)
\* and on any other vector leaves it; no PushBack, failed or not, lowers it.
C9_CapacityDoubles ==
    \A v \in Vectors :
        /\ pushes[v] >= 1 =>
              vec[v].size = pushes[v] /\ vec[v].cap = PowerOfTwoAtLeast(pushes[v])
        /\ \A c \in CallsOf(PushBackArgs(v)) :
              LET m == Run(c) IN
              /\ m.vec[v].cap >= vec[v].cap
              /\ ~m.failed =>
                    m.vec[v].cap = IF ~Full(v) THEN vec[v].cap
                                   ELSE IF vec[v].cap = 0 THEN 1 ELSE 2 * vec[v].cap

\* three PushBack calls from empty have given capacity 4, and the next one
\* fits without a reallocation
C9_Witness ==
    \E v \in Vectors :
        /\ pushes[v] = 3 /\ vec[v].cap = 4
        /\ \E c \in CallsOf(PushBackArgs(v)) : ~Run(c).failed /\ Run(c).path = "inplace"

\* C10 as stated: a move construction or a move assignment from a distinct
\* vector leaves the source with size 0 and the target with the former
\* elements of the source, with no element operation.
C10_MoveLeavesSourceEmpty ==
    \A v \in Vectors : \A o \in Vectors \ {v} :
        \A c \in CallsOf(MoveCtorArgs(v, o) \cup MoveAssignArgs(v, o)) :
            LET m == Run(c) IN
            /\ m.vec[o].size = 0
            /\ After(m, v) = Before(o)
            /\ NoElementWork(m)

\* C10: a move construction leaves the source empty with no storage; a move
\* assignment from a distinct vector exchanges storage and size, so the
\* source ends with the former elements of the target and has size 0 exactly
\* when the target was empty; in both the target ends with the storage and
\* elements of the source and no element operation or allocation happens.
C10_MoveExchangesStorage ==
    \A v \in Vectors : \A o \in Vectors \ {v} :
        /\ \A c \in CallsOf(MoveCtorArgs(v, o)) :
              LET m == Run(c) IN
              /\ m.vec[v] = vec[o] /\ m.vec[o] = EmptyVec
              /\ After(m, v) = Before(o)
              /\ m.heap = heap /\ NoElementWork(m)
        /\ \A c \in CallsOf(MoveAssignArgs(v, o)) :
              LET m == Run(c) IN
              /\ m.vec[v] = vec[o] /\ m.vec[o] = vec[v]
              /\ After(m, v) = Before(o) /\ After(m, o) = Before(v)
              /\ m.heap = heap /\ NoElementWork(m)

\* a move assignment between two vectors of different sizes, neither empty
C10_Witness ==
    \E v \in Vectors : \E o \in Vectors \ {v} : \E c \in CallsOf(MoveAssignArgs(v, o)) :
        /\ vec[v].size >= 1 /\ vec[o].size >= 1 /\ vec[v].size # vec[o].size
        /\ Run(c).vec[o].size = vec[v].size
\* the calls on vector v that take no other vector
OwnArgs(v) ==
    DtorArgs(v) \cup ResizeArgs(v) \cup ReserveArgs(v) \cup PushBackArgs(v)
    \cup InsertArgs(v) \cup EraseArgs(v) \cup PopBackArgs(v)

\* C11: a successful copy assignment a = b leaves a with the size and the
\* element values of b in the same order, in each of its branches, and b
\* as it was; two vectors never hold the same storage, and a call on one
\* vector leaves the storage, size, capacity and slots of the other as they
\* were.
C11_CopyAssignGivesIndependentCopy ==
    \A v \in Vectors : \A o \in Vectors \ {v} :
        /\ \A c \in CallsOf(CopyAssignArgs(v, o)) :
              LET m == Run(c) IN
              (~m.failed /\ ~m.ub) =>
                  /\ m.path \in {"copyswap", "shrink", "grow"}
                  /\ m.vec[v].size = vec[o].size
                  /\ After(m, v) = Before(o)
                  /\ m.vec[o] = vec[o] /\ After(m, o) = Before(o)
                  /\ m.vec[v].data # Null => m.vec[v].data # m.vec[o].data
        /\ vec[v].data # Null => vec[v].data # vec[o].data
        /\ \A c \in CallsOf(OwnArgs(v)) :
              LET m == Run(c) IN
              /\ m.vec[o] = vec[o]
              /\ vec[o].data # Null => m.heap[vec[o].data] = heap[vec[o].data]

\* a = b succeeds assigning one element and constructing another, and b = a
\* succeeds assigning one element and destroying another, the values of a
\* and b differing
C11_Witness ==
    \E v \in Vectors : \E o \in Vectors \ {v} :
        /\ vec[v].size >= 1 /\ vec[o].size > vec[v].size /\ Before(v)[1] # Before(o)[1]
        /\ \E c \in CallsOf(CopyAssignArgs(v, o)) :
              /\ Run(c).path = "grow" /\ ~Run(c).failed /\ ~Run(c).ub
              /\ Run(c).assigned >= 1 /\ Run(c).constructed >= 1
        /\ \E c \in CallsOf(CopyAssignArgs(o, v)) :
              /\ Run(c).path = "shrink" /\ ~Run(c).failed /\ ~Run(c).ub
              /\ Run(c).assigned >= 1 /\ Run(c).destroyed >= 1
\* C12: Reserve(k) with k <= capacity allocates nothing and leaves the
\* storage, capacity, size and every slot as they were; a successful
\* Reserve(k) with k > capacity makes the capacity exactly k in one
\* allocation and leaves the size and the element sequence as they were.
C12_ReserveKeepsSizeAndElements ==
    \A v \in Vectors : \A c \in CallsOf(ReserveArgs(v)) :
        LET m == Run(c) IN
        /\ c.a.n <= vec[v].cap =>
              m.heap = heap /\ m.vec = vec /\ NoElementWork(m) /\ ~m.failed
        /\ (c.a.n > vec[v].cap /\ ~m.failed /\ ~m.ub) =>
              /\ m.vec[v].cap = c.a.n /\ m.allocs = 1
              /\ m.vec[v].size = vec[v].size
              /\ After(m, v) = Before(v)

\* a vector of two different elements on which Reserve of its own capacity
\* does nothing and Reserve of more succeeds
C12_Witness ==
    \E v \in Vectors :
        /\ vec[v].size >= 2 /\ Before(v)[1] # Before(v)[2]
        /\ \E c \in CallsOf(ReserveArgs(v)) : c.a.n = vec[v].cap /\ Run(c).path = "noop"
        /\ \E c \in CallsOf(ReserveArgs(v)) :
              Run(c).path = "realloc" /\ ~Run(c).failed /\ ~Run(c).ub
              /\ Run(c).vec[v].cap > vec[v].cap

\* C13: after a successful Resize(k) the size is k and the elements below
\* both sizes are as they were; for k below the old size exactly the
\* trailing old size - k elements were destroyed; for k above it the slots
\* [old size, k) hold default constructed elements, exactly k - old size of
\* them built besides the migration of a reallocation; for k equal to it
\* nothing has changed.
C13_ResizeSetsSize ==
    \A v \in Vectors : \A c \in CallsOf(ResizeArgs(v)) :
        LET m == Run(c)
            k == c.a.n
            old == vec[v].size
            moved == IF k > vec[v].cap THEN old ELSE 0
        IN (~m.failed /\ ~m.ub) =>
              /\ m.vec[v].size = k
              /\ \A i \in 1 .. (IF k < old THEN k ELSE old) : After(m, v)[i] = Before(v)[i]
              /\ k < old =>
                    /\ m.destroyed = old - k /\ m.constructed = 0
                    /\ m.vec[v].data = vec[v].data /\ m.vec[v].cap = vec[v].cap
                    /\ \A i \in (k + 1) .. old : m.heap[vec[v].data].slots[i] = Raw
              /\ k > old =>
                    /\ \A i \in (old + 1) .. k : After(m, v)[i] = DefaultVal
                    /\ m.constructed = (k - old) + moved /\ m.destroyed = moved
              /\ k = old => m.heap = heap /\ m.vec = vec /\ NoElementWork(m)

\* a vector of two elements, the first not a default value, on which Resize
\* to 0 and Resize beyond the capacity both succeed
C13_Witness ==
    \E v \in Vectors :
        /\ vec[v].size >= 2 /\ Before(v)[1] # DefaultVal
        /\ \E c \in CallsOf(ResizeArgs(v)) :
              c.a.n = 0 /\ ~Run(c).failed /\ ~Run(c).ub /\ Run(c).destroyed >= 2
        /\ \E c \in CallsOf(ResizeArgs(v)) :
              /\ Run(c).path = "growrealloc" /\ ~Run(c).failed /\ ~Run(c).ub
              /\ Run(c).vec[v].size > vec[v].cap
\* C14: when Vector(n) or the copy constructor fails while constructing
\* element j, the j elements built so far are destroyed and nothing else is,
\* the allocation is released with no element left in it, no destructor
\* runs on an unconstructed slot, the exception propagates, no object comes
\* to exist and the heap is as before the call.
C14_FailedConstructionRollsBack ==
    \A v \in Vectors :
        \A c \in CallsOf(SizedCtorArgs(v) \cup UNION {CopyCtorArgs(v, o) : o \in Vectors}) :
            LET m == Run(c)
                j == m.failAt - 1
            IN (m.failed /\ m.stage \in {"construct", "copy"}) =>
                  /\ m.exc
                  /\ m.constructed = j /\ m.destroyed = j
                  /\ m.allocs = 1 /\ m.releases = 1 /\ m.leaked = 0
                  /\ ~m.baddtor
                  /\ ~m.vec[v].alive
                  /\ m.heap = heap /\ m.vec = vec

\* a sized construction and a copy construction that each fail after their
\* first element was built
C14_Witness ==
    \E v \in Vectors : \E o \in Vectors \ {v} :
        /\ \E c \in CallsOf(SizedCtorArgs(v)) :
              Run(c).stage = "construct" /\ Run(c).failAt >= 2 /\ Run(c).destroyed >= 1
        /\ \E c \in CallsOf(CopyCtorArgs(v, o)) :
              Run(c).stage = "copy" /\ Run(c).failAt >= 2 /\ Run(c).destroyed >= 1
\* C15: when Insert before end() with spare capacity fails during the
\* backward shift, the exception propagates, the storage, size and capacity
\* are as before the call, the slot at index size, built for the shift, is
\* raw again, and the elements below pos are as they were (those from pos on
\* are not restored).
C15_FailedShiftDestroysTail ==
    \A v \in Vectors : \A c \in CallsOf(InsertArgs(v)) :
        LET m == Run(c) IN
        (m.path = "shift" /\ m.failed /\ m.stage = "shift") =>
            /\ m.exc
            /\ m.vec[v] = vec[v]
            /\ m.heap[vec[v].data].slots[vec[v].size + 1] = Raw
            /\ \A i \in 1 .. c.a.n : After(m, v)[i] = Before(v)[i]

\* an Insert at begin() into three elements with spare capacity whose
\* second move assignment fails, the elements left other than they were
C15_Witness ==
    \E v \in Vectors : \E c \in CallsOf(InsertArgs(v)) :
        /\ vec[v].size >= 3 /\ vec[v].size < vec[v].cap /\ c.a.n = 0
        /\ Run(c).path = "shift" /\ Run(c).stage = "shift" /\ Run(c).exc /\ ~Run(c).ub
        /\ Run(c).failAt >= 4 /\ Run(c).assigned >= 1
        /\ After(Run(c), v) # Before(v)
\* C16: when a copy assignment a = b with b.size > a.capacity fails, in its
\* allocation or in the copy of any element of b, the exception propagates
\* and both vectors and every buffer are as before the call.
C16_FailedCopyAssignLeavesBoth ==
    \A v \in Vectors : \A o \in Vectors \ {v} : \A c \in CallsOf(CopyAssignArgs(v, o)) :
        LET m == Run(c) IN
        (vec[o].size > vec[v].cap /\ m.failed) =>
            /\ m.exc /\ m.path = "copyswap"
            /\ m.vec = vec /\ m.heap = heap
            /\ SameVector(m, v) /\ SameVector(m, o)

\* a = b with a not empty and b larger than the capacity of a, failing once
\* in its allocation and once in the copy of the second element of b
C16_Witness ==
    \E v \in Vectors : \E o \in Vectors \ {v} :
        /\ vec[v].size >= 1 /\ vec[o].size > vec[v].cap
        /\ \E c \in CallsOf(CopyAssignArgs(v, o)) : Run(c).exc /\ Run(c).stage = "alloc"
        /\ \E c \in CallsOf(CopyAssignArgs(v, o)) :
              Run(c).exc /\ Run(c).stage = "copy" /\ Run(c).failAt >= 2
\* C17 as stated: when Reserve(k) or the reallocation of Resize(k), k above
\* the capacity, fails in its allocation or while migrating an element, the
\* vector has the size, capacity and element values it had before the call.
C17_FailedReallocationLeavesVectorUnchanged ==
    \A v \in Vectors : \A c \in CallsOf(ReserveArgs(v) \cup ResizeArgs(v)) :
        LET m == Run(c) IN
        (c.a.n > vec[v].cap /\ m.failed /\ m.stage \in {"alloc", "migrate"} /\ ~m.ub) =>
            SameVector(m, v)

\* C17: when Reserve(k) or the reallocation of Resize(k), k above the
\* capacity, fails, the exception propagates and the vector keeps its
\* storage, size and capacity; after a failed allocation, or a failed
\* migration by copy, every buffer and element is as before the call; after
\* a migration by move that failed on element j the elements from index j on
\* are as they were and those below j are left moved-from.
C17_FailedReallocationKeepsSizeAndUnmovedElements ==
    \A v \in Vectors : \A c \in CallsOf(ReserveArgs(v) \cup ResizeArgs(v)) :
        LET m == Run(c)
            j == IF m.stage = "migrate" THEN m.failAt - 1 ELSE 0
        IN (c.a.n > vec[v].cap /\ m.failed /\ m.stage \in {"alloc", "migrate"} /\ ~m.ub) =>
              /\ m.exc
              /\ m.vec = vec
              /\ (m.stage = "alloc" \/ ~MigrateByMove(m)) => m.heap = heap
              /\ \A i \in 1 .. vec[v].size :
                    After(m, v)[i] = IF MigrateByMove(m) /\ i <= j THEN MovedFrom
                                     ELSE Before(v)[i]

\* a vector of a move-only type on which Reserve fails in its allocation
\* and Resize beyond the capacity fails moving element 1, element 0, which
\* held another value, being left moved-from
C17_Witness ==
    \E v \in Vectors :
        /\ vec[v].size >= 2 /\ Before(v)[1] # MovedFrom
        /\ \E c \in CallsOf(ReserveArgs(v)) :
              c.a.n > vec[v].cap /\ Run(c).exc /\ Run(c).stage = "alloc"
        /\ \E c \in CallsOf(ResizeArgs(v)) :
              /\ Run(c).path = "growrealloc" /\ Run(c).exc /\ Run(c).stage = "migrate"
              /\ ~Run(c).ub /\ Run(c).failAt >= 2 /\ After(Run(c), v)[1] = MovedFrom
\* C18: in PushBack on a full vector the allocation comes first and a
\* failure of it touches no element; the construction of the new element is
\* the first element operation, and when it fails nothing has been built,
\* moved from, assigned or destroyed, the new storage is released and every
\* buffer is as before the call; a migration fails only after that
\* construction, with no old element destroyed; a call that succeeds has
\* made one allocation, built size + 1 elements in it with the new one at
\* index size, destroyed the size old ones, released the old storage if
\* there was one and raised the size by one.
C18_NewElementBuiltBeforeMigration ==
    \A v \in Vectors : \A c \in CallsOf(PushBackArgs(v)) :
        LET m == Run(c)
            untouched == m.constructed = 0 /\ m.destroyed = 0 /\ m.assigned = 0
                         /\ m.heap = heap /\ m.vec = vec /\ m.exc
        IN Full(v) =>
              /\ m.path = "realloc"
              /\ m.stage = "alloc" => m.n = 0 /\ m.allocs = 0 /\ untouched
              /\ (m.allocs = 1 /\ 1 \in c.f.fails) =>
                    m.stage = "construct" /\ m.releases = 1 /\ untouched
              /\ m.stage = "migrate" =>
                    m.failAt >= 2 /\ m.destroyed = m.constructed - 1 /\ m.vec = vec
              /\ (~m.failed /\ ~m.ub) =>
                    /\ m.allocs = 1 /\ m.releases = (IF vec[v].data = Null THEN 0 ELSE 1)
                    /\ m.constructed = vec[v].size + 1 /\ m.destroyed = vec[v].size
                    /\ m.vec[v].size = vec[v].size + 1
                    /\ After(m, v) = Append(Before(v), c.a.x)
                    /\ m.ret = vec[v].size

\* a full vector of two elements, the first not a default value, on which
\* PushBack fails constructing the new element, and succeeds
C18_Witness ==
    \E v \in Vectors :
        /\ Full(v) /\ vec[v].size >= 2 /\ Before(v)[1] # MovedFrom
        /\ \E c \in CallsOf(PushBackArgs(v)) :
              Run(c).stage = "construct" /\ Run(c).exc /\ Run(c).allocs = 1
        /\ \E c \in CallsOf(PushBackArgs(v)) : ~Run(c).failed /\ ~Run(c).ub

\* C19 as stated: no call runs an element destructor on a slot that holds no
\* constructed element, in any state reached before undefined behaviour.
C19_NoDestructorOnRawSlot ==
    \A c \in CallsOf(AllArgs) : ~Run(c).baddtor
====
